---- MODULE Spec2Model ----
(***************************************************************************)
(* The two sequence-to-sequence models of the repository as one state      *)
(* machine: the RNN encoder-decoder (models/encoder_decoder_attention.py)  *)
(* and the Transformer (models/transformer.py), each with its train_step,  *)
(* valid_step and test_step and the decoding loop of its call.             *)
(*                                                                         *)
(* Tensors are sequences: a batch is a sequence of rows, a row a sequence  *)
(* of token IDs.  Positions are 1-based here: position p is index p-1 of   *)
(* the code, and a vector over the vocabulary holds ID v at index v+1.     *)
(* The trained layers (embedding, LSTM, attention, dense) are modelled by  *)
(* what they can read: an output records the tokens it was computed from   *)
(* (seen, mem) next to a score vector (probs) that is a fixed function of  *)
(* them and of the weights.                                                *)
(***************************************************************************)
EXTENDS Integers, Sequences, FiniteSets, TLC

\* Bounds of the model.
MaxBatch == 1
MaxLen == 2
depth_t == 3
max_len == 2

\* Program constants.
PAD == 0
BOS == 1
N == 3

None == <<>>
Tokens == 0..(depth_t - 1)
Batches(B, n) == [1..B -> [1..n -> Tokens]]
BatchSizes == 1..MaxBatch
Targets(B) == UNION {Batches(B, n) : n \in 1..MaxLen}
\* The source batch, as pad_sequences(padding='post') gives it: the longest row
\* in full, the others padded at the end.  No property below reads a source
\* token, so one batch per batch size stands for all.
Sources(B) == {[b \in 1..B |-> IF b = 1 THEN <<BOS, BOS>> ELSE <<BOS, PAD>>]}
\* The trainable variables, kept to two settings: what a gradient update
\* changes is that the same inputs may score differently afterwards.
Weights == 0..1

VARIABLES prog, weights, pc, step, call, result

vars == <<prog, weights, pc, step, call, result>>

(***************************************************************************)
(* Tensor helpers                                                          *)
(***************************************************************************)
BatchOf(x) == DOMAIN x
\* The sequence f, built once: a function over 1..n is a sequence.
AsSeq(f) == SubSeq(f, 1, Len(f))
LenOf(x) == Len(x[1])

Ones(n) == [i \in 1..n |-> [j \in 1..n |-> 1]]
Transpose(m) ==
    AsSeq([i \in 1..Len(m[1]) |-> AsSeq([j \in 1..Len(m) |-> m[j][i]])])
Triu(m) == [i \in DOMAIN m |-> [j \in DOMAIN m[i] |-> IF j >= i THEN m[i][j] ELSE 0]]

argmax(p) ==
    (CHOOSE k \in DOMAIN p :
        \A m \in DOMAIN p : p[m] < p[k] \/ (p[m] = p[k] /\ k <= m)) - 1

RECURSIVE WSum(_, _, _)
WSum(row, vis, n) ==
    IF n = 0 THEN 0
    ELSE WSum(row, vis, n - 1) + (IF n \in vis THEN n * row[n] ELSE 0)

\* The output layer Dense(depth, activation='softmax'): a score per vocabulary ID.
Softmax(h) == AsSeq([k \in 1..depth_t |-> (h + k - 1) % depth_t])

(***************************************************************************)
(* Transformer: masks                                                      *)
(***************************************************************************)
CountNonZero(row) == Cardinality({j \in DOMAIN row : row[j] # 0})

sequence_mask_short(x) ==
    [b \in BatchOf(x) |->
        [j \in DOMAIN x[b] |-> IF j < CountNonZero(x[b]) THEN 1 ELSE 0]]

sequence_mask(x) ==
    [b \in BatchOf(x) |->
        [j \in DOMAIN x[b] |-> IF j <= CountNonZero(x[b]) THEN 1 ELSE 0]]

subsequence_mask_upper(x) ==
    LET mask == Triu(Transpose(Ones(LenOf(x))))
    IN  [b \in BatchOf(x) |-> mask]

subsequence_mask(x) ==
    LET mask == Transpose(Triu(Transpose(Ones(LenOf(x)))))
    IN  [b \in BatchOf(x) |-> mask]

\* tf.tile(target_mask[:, newaxis, :], [1, L, 1]), then greater(. + subsequent, 1)
combine_masks(target_mask, subsequent_mask) ==
    [b \in DOMAIN target_mask |->
        [i \in DOMAIN subsequent_mask[b] |->
            [j \in DOMAIN target_mask[b] |->
                target_mask[b][j] + subsequent_mask[b][i][j] > 1]]]

(***************************************************************************)
(* The frame of one call of the model (the locals of call)                 *)
(***************************************************************************)
EmptyCall ==
    [source |-> None, target |-> None, use_teacher_forcing |-> FALSE,
     source_mask |-> None, len_mask |-> None, target_mask |-> None,
     hs |-> None, states |-> None, y |-> None, output |-> <<>>,
     t |-> 0, len_target_sequences |-> 0,
     n_dec |-> 0, dec_in |-> None, dec_mask |-> None]

\* for t in range(len_target_sequences): whether the loop runs its body again.
loop_continues(c) == c.t < c.len_target_sequences

len_target_sequences_fixed(target) == max_len

len_target_sequences(target) ==
    IF target # None THEN LenOf(target) ELSE max_len

(***************************************************************************)
(* Transformer: encoder, decoder, call                                     *)
(***************************************************************************)
\* Whether self-attention lets query position i read key position j.
Allowed(mask, b, i, j) == IF mask = None THEN TRUE ELSE mask[b][i][j]

\* The positions whose input tokens reach position i after k decoder layers:
\* each layer adds the attended positions to the residual x + h.
RECURSIVE Visible(_, _, _, _, _)
Visible(mask, b, i, n, k) ==
    IF k = 0 THEN {i}
    ELSE Visible(mask, b, i, n, k - 1) \cup
         UNION {Visible(mask, b, j, n, k - 1) :
                    j \in {jj \in 1..n : Allowed(mask, b, i, jj)}}

TransformerEncoder(x, mask) ==
    [b \in BatchOf(x) |-> [tokens |-> x[b], mask |-> mask[b]]]

decoder_output(w, row, mem, i, vis) ==
    [pos |-> i,
     seen |-> [j \in vis |-> row[j]],
     mem |-> mem,
     probs |-> Softmax(w + WSum(row, vis, Len(row)))]

TransformerDecoder(w, x, hs, mask) ==
    AsSeq([b \in BatchOf(x) |->
        AsSeq([i \in DOMAIN x[b] |->
            decoder_output(w, x[b], hs[b], i,
                           Visible(mask, b, i, Len(x[b]), N))])])

\* call(source, target) with a target: lines 49-59, 65-71, 86.
Transformer_call_target(w, source, target) ==
    LET source_mask == sequence_mask(source)
        len_mask == sequence_mask(target)
        target_mask == combine_masks(len_mask, subsequence_mask(target))
        hs == TransformerEncoder(source, source_mask)
    IN  [EmptyCall EXCEPT
            !.source = source, !.target = target,
            !.source_mask = source_mask, !.len_mask = len_mask,
            !.target_mask = target_mask, !.hs = hs,
            !.len_target_sequences = len_target_sequences(target),
            !.output = TransformerDecoder(w, target, hs, target_mask),
            !.n_dec = 1, !.dec_in = target, !.dec_mask = target_mask]

\* call(source) without a target, up to the loop: lines 49, 61-65, 73-74.
Transformer_call_begin(source) ==
    LET source_mask == sequence_mask(source)
    IN  [EmptyCall EXCEPT
            !.source = source, !.source_mask = source_mask,
            !.hs = TransformerEncoder(source, source_mask),
            !.len_target_sequences = len_target_sequences(None),
            !.y = AsSeq([b \in BatchOf(source) |-> <<BOS>>])]

\* The mask the loop hands to the decoder: none (line 77 passes no mask).
inference_mask(y) == None

concat_replace(y, out) == out

concat(y, out) == AsSeq([b \in BatchOf(y) |-> y[b] \o out[b]])

\* One iteration of the loop of lines 76-81.
\* out[:, -1, :] and argmax(out[:, -1:, :], axis=-1)
last_position(out) == AsSeq([b \in BatchOf(out) |-> out[b][Len(out[b])]])
argmax_last(out) ==
    AsSeq([b \in BatchOf(out) |-> <<argmax(out[b][Len(out[b])].probs)>>])

decode_update(c, mask, out) ==
    [c EXCEPT !.output = Append(@, last_position(out)),
              !.y = concat(c.y, argmax_last(out)),
              !.t = @ + 1, !.n_dec = @ + 1,
              !.dec_in = c.y, !.dec_mask = mask]

Transformer_loop_body(w, c) ==
    decode_update(c, inference_mask(c.y),
                  TransformerDecoder(w, c.y, c.hs, inference_mask(c.y)))

\* convert_to_tensor and transpose(perm=[1, 0, 2]): time-major to batch-major.
call_return(c) == [c EXCEPT !.output = Transpose(@)]

(***************************************************************************)
(* RNN encoder-decoder: decoder, call                                      *)
(***************************************************************************)
\* Decoder.call on one input token per row: the LSTM state after it is a
\* function of every token fed so far.
RNNDecoder(w, y, hs, states) ==
    LET new_states == AsSeq([b \in BatchOf(y) |-> Append(states[b], y[b][1])])
    IN  [out |-> AsSeq([b \in BatchOf(y) |->
                    [pos |-> Len(new_states[b]),
                     seen |-> new_states[b],
                     mem |-> hs[b],
                     probs |-> Softmax(w + WSum(new_states[b],
                                                DOMAIN new_states[b],
                                                Len(new_states[b])))]]),
         states |-> new_states]

\* Lines 65-74.
EncoderDecoder_call_begin(source, target, use_teacher_forcing) ==
    [EmptyCall EXCEPT
        !.source = source, !.target = target,
        !.use_teacher_forcing = use_teacher_forcing,
        !.len_target_sequences = len_target_sequences(target),
        !.hs = source,
        !.states = AsSeq([b \in BatchOf(source) |-> <<>>]),
        !.y = AsSeq([b \in BatchOf(source) |-> <<BOS>>])]

next_input_forced(c, out) ==
    IF c.target # None
    THEN AsSeq([b \in BatchOf(c.y) |-> <<c.target[b][c.t + 1]>>])
    ELSE AsSeq([b \in BatchOf(c.y) |-> <<argmax(out[b].probs)>>])

\* Lines 80-83: the decoder's next input.
next_input(c, out) ==
    IF c.use_teacher_forcing /\ c.target # None
    THEN AsSeq([b \in BatchOf(c.y) |-> <<c.target[b][c.t + 1]>>])
    ELSE AsSeq([b \in BatchOf(c.y) |-> <<argmax(out[b].probs)>>])

\* One iteration of the loop of lines 76-83.
loop_update(c, r) ==
    [c EXCEPT !.states = r.states,
              !.output = Append(@, r.out),
              !.y = next_input(c, r.out),
              !.t = @ + 1, !.n_dec = @ + 1,
              !.dec_in = c.y]

EncoderDecoder_loop_body(w, c) ==
    loop_update(c, RNNDecoder(w, c.y, c.hs, c.states))

RECURSIVE EncoderDecoder_run(_, _)
EncoderDecoder_run(w, c) ==
    IF loop_continues(c)
    THEN EncoderDecoder_run(w, EncoderDecoder_loop_body(w, c))
    ELSE call_return(c)

\* model(x, t, use_teacher_forcing=...): the whole call.
EncoderDecoder_call(w, source, target, use_teacher_forcing) ==
    EncoderDecoder_run(w, EncoderDecoder_call_begin(source, target,
                                                    use_teacher_forcing))

(***************************************************************************)
(* train_step, valid_step, test_step                                       *)
(***************************************************************************)
one_hot(id, depth) == [k \in 1..depth |-> IF k = id + 1 THEN 1 ELSE 0]

loss_label_unmasked(t) ==
    [b \in BatchOf(t) |-> [i \in DOMAIN t[b] |-> one_hot(t[b][i], depth_t)]]

\* label = one_hot(t) * mask_t[:, :, newaxis], mask_t = not_equal(t, pad_value)
loss_label(t) ==
    [b \in BatchOf(t) |->
        [i \in DOMAIN t[b] |->
            LET mask_t == IF t[b][i] # PAD THEN 1 ELSE 0
            IN  [k \in 1..depth_t |-> one_hot(t[b][i], depth_t)[k] * mask_t]]]

\* categorical_crossentropy: per position, the terms label[k] * log(pred[k])
\* that are not multiplied by 0, each as <<ID, pred[k]>>.
compute_loss(label, preds) ==
    [b \in DOMAIN label |->
        [i \in DOMAIN label[b] |->
            {<<k - 1, preds[b][i].probs[k]>> :
                k \in {kk \in 1..depth_t : label[b][i][kk] # 0}}]]

NoResult == [preds |-> None, label |-> None, loss |-> None]

step_result(preds, t) ==
    LET label == loss_label(t)
    IN  [preds |-> preds, label |-> label, loss |-> compute_loss(label, preds)]

\* optimizer.apply_gradients: the trainable variables change.
apply_gradients(w) == (w + 1) % Cardinality(Weights)

valid_step_teacher_forcing_on == TRUE

\* valid_step calls model(x, t, use_teacher_forcing=False)
valid_step_teacher_forcing == FALSE

Init ==
    /\ prog \in {"transformer", "rnn"}
    /\ weights = 0
    /\ pc = "idle"
    /\ step = "none"
    /\ call = EmptyCall
    /\ result = NoResult

Ready == pc = "idle"

\* transformer.py train_step
Transformer_train_step ==
    /\ prog = "transformer" /\ Ready
    /\ \E B \in BatchSizes : \E x \in Sources(B), t \in Targets(B) :
         LET c == Transformer_call_target(weights, x, t)
         IN  /\ call' = c
             /\ result' = step_result(c.output, t)
    /\ weights' = apply_gradients(weights)
    /\ step' = "train" /\ pc' = "done"
    /\ UNCHANGED prog

\* transformer.py valid_step
Transformer_valid_step ==
    /\ prog = "transformer" /\ Ready
    /\ \E B \in BatchSizes : \E x \in Sources(B), t \in Targets(B) :
         LET c == Transformer_call_target(weights, x, t)
         IN  /\ call' = c
             /\ result' = step_result(c.output, t)
    /\ step' = "valid" /\ pc' = "done"
    /\ UNCHANGED <<prog, weights>>

\* transformer.py test_step: model(x) enters the decoding loop
Transformer_test_step ==
    /\ prog = "transformer" /\ Ready
    /\ \E B \in BatchSizes : \E x \in Sources(B) :
         call' = Transformer_call_begin(x)
    /\ result' = NoResult
    /\ step' = "test" /\ pc' = "loop"
    /\ UNCHANGED <<prog, weights>>

Transformer_decode ==
    /\ prog = "transformer" /\ pc = "loop"
    /\ loop_continues(call)
    /\ call' = Transformer_loop_body(weights, call)
    /\ UNCHANGED <<prog, weights, pc, step, result>>

Transformer_test_return ==
    /\ prog = "transformer" /\ pc = "loop"
    /\ ~loop_continues(call)
    /\ call' = call_return(call)
    /\ result' = [NoResult EXCEPT !.preds = call_return(call).output]
    /\ pc' = "done"
    /\ UNCHANGED <<prog, weights, step>>

\* encoder_decoder_attention.py train_step: the teacher-forcing draw, then model(x, t, ...)
EncoderDecoder_train_step ==
    /\ prog = "rnn" /\ Ready
    /\ \E B \in BatchSizes : \E x \in Sources(B), t \in Targets(B) :
         \E use_teacher_forcing \in BOOLEAN :
             call' = EncoderDecoder_call_begin(x, t, use_teacher_forcing)
    /\ result' = NoResult
    /\ step' = "train" /\ pc' = "loop"
    /\ UNCHANGED <<prog, weights>>

EncoderDecoder_valid_step ==
    /\ prog = "rnn" /\ Ready
    /\ \E B \in BatchSizes : \E x \in Sources(B), t \in Targets(B) :
         call' = EncoderDecoder_call_begin(x, t, valid_step_teacher_forcing)
    /\ result' = NoResult
    /\ step' = "valid" /\ pc' = "loop"
    /\ UNCHANGED <<prog, weights>>

EncoderDecoder_test_step ==
    /\ prog = "rnn" /\ Ready
    /\ \E B \in BatchSizes : \E x \in Sources(B) :
         call' = EncoderDecoder_call_begin(x, None, FALSE)
    /\ result' = NoResult
    /\ step' = "test" /\ pc' = "loop"
    /\ UNCHANGED <<prog, weights>>

EncoderDecoder_decode ==
    /\ prog = "rnn" /\ pc = "loop"
    /\ loop_continues(call)
    /\ call' = EncoderDecoder_loop_body(weights, call)
    /\ UNCHANGED <<prog, weights, pc, step, result>>

\* The call returns; train_step and valid_step compute label and loss, and
\* train_step applies the gradients.
EncoderDecoder_step_return ==
    /\ prog = "rnn" /\ pc = "loop"
    /\ ~loop_continues(call)
    /\ call' = call_return(call)
    /\ result' = IF step = "test"
                 THEN [NoResult EXCEPT !.preds = call_return(call).output]
                 ELSE step_result(call_return(call).output, call.target)
    /\ weights' = IF step = "train" THEN apply_gradients(weights) ELSE weights
    /\ pc' = "done"
    /\ UNCHANGED <<prog, step>>

\* The driver's loop goes on to its next batch: the step's locals are gone.
next_batch ==
    /\ pc = "done"
    /\ pc' = "idle" /\ step' = "none"
    /\ call' = EmptyCall /\ result' = NoResult
    /\ UNCHANGED <<prog, weights>>

Next ==
    \/ Transformer_train_step
    \/ Transformer_valid_step
    \/ Transformer_test_step
    \/ Transformer_decode
    \/ Transformer_test_return
    \/ EncoderDecoder_train_step
    \/ EncoderDecoder_valid_step
    \/ EncoderDecoder_test_step
    \/ EncoderDecoder_decode
    \/ EncoderDecoder_step_return
    \/ next_batch

Spec == Init /\ [][Next]_vars

(***************************************************************************)
(* Properties                                                              *)
(***************************************************************************)
\* The target that differs from t in the one token at row b, position p.  Every
\* target of the same shape is reached from t by such changes, one at a time,
\* so what no single change alters, no change of those positions alters.
Changed(t, b, p) == [t EXCEPT ![b][p] = (@ + 1) % depth_t]

\* The decoder's output at step k (1-based) of the call in progress or returned.
OutAt(b, k) == IF pc = "loop" THEN call.output[k][b] ELSE call.output[b][k]

SameOutputs(other, upto) ==
    \A b \in BatchOf(call.source) : \A k \in 1..upto : other[b][k] = OutAt(b, k)

LoopEnd == pc = "loop" /\ call.t = call.len_target_sequences

WithTarget == prog = "transformer" /\ pc = "done" /\ step \in {"train", "valid"}

\* C1: in Transformer.call with a target, the mask handed to the decoder lets
\* position i attend to position j exactly when j <= i and sequence_mask(target)
\* marks j as not padding: never a later position, never a padded one.
C1_TargetMaskCausalAndPadded ==
    WithTarget =>
        /\ call.dec_mask = call.target_mask
        /\ \A b \in BatchOf(call.target) :
             \A i, j \in 1..LenOf(call.target) :
                /\ call.target_mask[b][i][j] = TRUE
                     <=> (j <= i /\ call.len_mask[b][j] = 1)
                /\ j > i => call.dec_mask[b][i][j] = FALSE
                /\ call.len_mask[b][j] = 0 => call.dec_mask[b][i][j] = FALSE

C1_Witness ==
    /\ WithTarget
    /\ LenOf(call.target) = 2
    /\ call.target_mask[1][2][1] = TRUE
    /\ call.target_mask[1][1][2] = FALSE
    /\ call.len_mask[1][2] = 1

PostPadded(row) ==
    \A j, k \in DOMAIN row : (j < k /\ row[j] = PAD) => row[k] = PAD

\* C2 as stated: sequence_mask(x)[b][j] = 1 exactly when x[b][j] is not the
\* padding ID 0, for every batch of rows, and the mask is as long as the row.
C2_MaskIsNotPad ==
    WithTarget =>
        \A b \in BatchOf(call.target) :
            /\ Len(call.len_mask[b]) = Len(call.target[b])
            /\ \A j \in DOMAIN call.target[b] :
                 call.len_mask[b][j] = 1 <=> call.target[b][j] # PAD

\* C2, amended: the same for every row whose padding is trailing (no 0 before a
\* non-zero ID); for any row the mask is as long as the row and marks the first
\* n positions, n the number of non-zero IDs of the row.
C2_MaskIsNotPadWhenPostPadded ==
    WithTarget =>
        \A b \in BatchOf(call.target) :
            /\ Len(call.len_mask[b]) = Len(call.target[b])
            /\ \A j \in DOMAIN call.target[b] :
                 /\ call.len_mask[b][j] \in {0, 1}
                 /\ call.len_mask[b][j] = 1
                      <=> j <= Cardinality({k \in DOMAIN call.target[b] :
                                                call.target[b][k] # PAD})
                 /\ PostPadded(call.target[b]) =>
                      (call.len_mask[b][j] = 1 <=> call.target[b][j] # PAD)

C2_Witness ==
    /\ WithTarget
    /\ call.target[1] = <<2, PAD>>
    /\ call.len_mask[1] = <<1, 0>>

\* C3: in Transformer inference (no target) every run of the decoder on the
\* generated prefix lets prefix position i attend only to positions j <= i.
C3_InferenceCausal ==
    (prog = "transformer" /\ step = "test" /\ call.n_dec > 0) =>
        \A b \in BatchOf(call.dec_in) :
            \A i, j \in DOMAIN call.dec_in[b] :
                Allowed(call.dec_mask, b, i, j) => j <= i

Fed(b, k) == call.states[b][k]

Forced == call.use_teacher_forcing /\ call.target # None

\* C4: in EncoderDecoder.call the decoder's input at step 0 is BOS for every
\* row; its input at step k+1 is target[:, k] under teacher forcing with a
\* target, and otherwise the argmax of the decoder's own output at step k; so
\* the output at step k does not change when the target changes at position k
\* or later.
C4_DecoderInputs ==
    (prog = "rnn" /\ pc = "loop") =>
        /\ \A b \in BatchOf(call.source) :
             /\ call.t = 0 => call.y[b] = <<BOS>>
             /\ call.t > 0 => Fed(b, 1) = BOS
             /\ \A k \in 1..call.t :
                  LET nxt == IF k < call.t THEN Fed(b, k + 1) ELSE call.y[b][1]
                  IN  nxt = IF Forced THEN call.target[b][k]
                            ELSE argmax(OutAt(b, k).probs)
        /\ (LoopEnd /\ step = "train") =>
             \A b2 \in BatchOf(call.target), p \in 1..LenOf(call.target) :
                SameOutputs(EncoderDecoder_call(weights, call.source,
                                Changed(call.target, b2, p),
                                call.use_teacher_forcing).output, p)

C4_Witness ==
    /\ prog = "rnn" /\ pc = "loop" /\ step = "train"
    /\ call.use_teacher_forcing
    /\ call.t = 2
    /\ Fed(1, 2) = call.target[1][1]
    /\ call.target[1][1] # argmax(OutAt(1, 1).probs)
    /\ LoopEnd
    /\ EncoderDecoder_call(weights, call.source, Changed(call.target, 1, 1),
            call.use_teacher_forcing).output[1][2] # OutAt(1, 2)

Inferring == prog = "transformer" /\ step = "test" /\ pc = "loop"

C6_Prefix ==
    Inferring =>
        \A b \in BatchOf(call.source) :
            /\ Len(call.y[b]) = call.t + 1
            /\ call.y[b][1] = BOS
            /\ \A k \in 1..call.t :
                 /\ call.y[b][k + 1] = argmax(call.output[k][b].probs)
                 /\ call.output[k][b].pos = k
            /\ call.n_dec > 0 =>
                 /\ Len(call.dec_in[b]) = call.t
                 /\ Len(call.dec_in[b]) <= max_len

C6_Step ==
    (Inferring /\ call'.t = call.t + 1) =>
        \A b \in BatchOf(call.source) :
            /\ Len(call'.y[b]) = Len(call.y[b]) + 1
            /\ SubSeq(call'.y[b], 1, Len(call.y[b])) = call.y[b]
            /\ call'.dec_in[b] = call.y[b]
            /\ Len(call'.output) = Len(call.output) + 1
            /\ SubSeq(call'.output, 1, Len(call.output)) = call.output
            /\ call'.output[call'.t][b].pos = Len(call.y[b])
            /\ call'.y[b][Len(call'.y[b])]
                 = argmax(call'.output[call'.t][b].probs)

\* C6: in Transformer greedy inference the prefix y has t+1 tokens per row
\* before step t and starts with BOS; a step appends exactly one token per row,
\* the argmax of the output at the last prefix position, and changes no earlier
\* token; the output recorded at step t is the one whose argmax is y[:, t+1];
\* the prefix fed to the decoder never has more than max_len tokens.
C6_PrefixAppendOnly == []C6_Prefix /\ [][C6_Step]_vars

C6_Witness ==
    /\ Inferring
    /\ call.t = max_len
    /\ Len(call.dec_in[1]) = max_len
    /\ Len(call.y[1]) = max_len + 1
    /\ call.y[1][max_len + 1] = argmax(call.output[max_len][1].probs)

ExpectedSteps == IF call.target # None THEN LenOf(call.target) ELSE max_len

Looping == pc \in {"loop", "done"} /\ (prog = "rnn" \/ step = "test")

C7_Counts ==
    Looping =>
        /\ call.len_target_sequences = ExpectedSteps
        /\ call.n_dec = call.t
        /\ call.t <= ExpectedSteps
        /\ pc = "loop" =>
             /\ Len(call.output) = call.t
             /\ loop_continues(call) <=> call.t < ExpectedSteps
        /\ pc = "done" =>
             /\ call.t = ExpectedSteps
             /\ result.preds = call.output
             /\ Len(result.preds) = Len(call.source)
             /\ \A b \in BatchOf(call.source) :
                  /\ Len(result.preds[b]) = ExpectedSteps
                  /\ \A k \in 1..ExpectedSteps :
                       Len(result.preds[b][k].probs) = depth_t

C7_Step ==
    /\ (pc = "loop" /\ pc' = "loop") =>
          (call'.t = call.t + 1 /\ call'.n_dec = call.n_dec + 1
           /\ call.t < ExpectedSteps)
    /\ (pc = "loop" /\ pc' = "done") => call.t = ExpectedSteps

\* C7: the decoding loops end after a fixed number of steps and never stop
\* early: EncoderDecoder.call runs the decoder len(target[0]) times with a
\* target and max_len times without, Transformer.call without a target max_len
\* times; until then the loop goes on whatever tokens it produced, each step
\* running the decoder once; the returned output is batch x steps x vocabulary.
C7_FixedNumberOfSteps == []C7_Counts /\ [][C7_Step]_vars

C7_Witness ==
    /\ prog = "rnn" /\ pc = "done" /\ step = "valid"
    /\ LenOf(call.target) = 1
    /\ call.n_dec = 1
    /\ Len(result.preds[1]) = 1
    /\ max_len # 1

Scored == pc = "done" /\ step \in {"train", "valid"}

\* C8: in train_step and valid_step of both models the label at (b, i) is all
\* zeros exactly when t[b][i] is the padding ID 0, and otherwise the one-hot
\* vector of t[b][i]; a padded position contributes no term to the loss and
\* any other position exactly the term of its own token.
C8_LabelExcludesPadding ==
    Scored =>
        \A b \in BatchOf(call.target) :
            \A i \in DOMAIN call.target[b] :
                LET tok == call.target[b][i]
                    lab == result.label[b][i]
                IN  /\ Len(lab) = depth_t
                    /\ (\A k \in DOMAIN lab : lab[k] = 0) <=> tok = PAD
                    /\ tok # PAD =>
                         \A k \in DOMAIN lab :
                            lab[k] = IF k = tok + 1 THEN 1 ELSE 0
                    /\ result.loss[b][i] =
                         IF tok = PAD THEN {}
                         ELSE {<<tok, result.preds[b][i].probs[tok + 1]>>}

C8_Witness ==
    /\ Scored /\ prog = "rnn" /\ step = "train"
    /\ call.target[1] = <<2, PAD>>
    /\ result.label[1][1][3] = 1
    /\ result.label[1][2][1] = 0
    /\ result.loss[1][2] = {}
    /\ Cardinality(result.loss[1][1]) = 1

\* C9: in the Transformer's train_step and valid_step the prediction at target
\* position i, scored against t[:, i], is computed from target tokens at
\* positions strictly before i only: two targets that differ only at positions
\* >= i give the same prediction at position i.
C9_PredictionBeforeToken ==
    WithTarget =>
        \A b \in BatchOf(call.target) :
            \A i \in DOMAIN call.target[b] :
                /\ \A j \in DOMAIN call.output[b][i].seen : j < i
                /\ step = "valid" =>
                     \A b2 \in BatchOf(call.target), p \in i..LenOf(call.target) :
                        Transformer_call_target(weights, call.source,
                            Changed(call.target, b2, p)).output[b][i]
                                = call.output[b][i]

====
